---------------------------- MODULE Spec2Model ----------------------------
(***************************************************************************)
(* Model of the Bomberman multi-agent training loop (src/main.py):         *)
(* BombermanGame.setup, perform_action, explode_bomb and on_update.        *)
(*                                                                         *)
(* Times are integers counting tenths of a second (0.5 s = 5, 3 s = 30);   *)
(* the bomb timers of the program are multiples of 0.5, which binary       *)
(* floating point represents exactly.                                      *)
(* Agents are indexed 0 .. num_agents-1 as in the program; a position is   *)
(* the pair <<row, col>>.                                                  *)
(* on_update is split at its loop heads: pc tells where the handler is     *)
(* ("idle" between calls, "bombs" in the bomb loop, "agents" in the agent  *)
(* loop, "check" at the all(game_over) test, "raised" once an IndexError    *)
(* has left on_update and ended the program).                              *)
(* The action an agent takes is an arbitrary one of the five: epsilon > 0   *)
(* makes every action possible whatever the table holds, so the game never *)
(* depends on the values of a Q-table.  A Q-table is represented by the    *)
(* number of update() calls applied to it, counted up to WriteCap, and     *)
(* updated is the set of agents whose update() ran in the current tick.    *)
(* bomb_ticks is a history variable: for each active bomb, the number of   *)
(* ticks begun since it was placed; moved is a history variable: the       *)
(* agents that made a successful move in the current episode.              *)
(* Where the values of the tables matter (SpecLearn, SpecCall, SpecAgent)  *)
(* q_table                                                                 *)
(* holds them: a table is its shape and its non-zero entries, a value is   *)
(* an integer number of 1/QUnit, and alpha = 0.1, gamma = 0.9 are kept as  *)
(* tenths, so that the arithmetic is that of the rationals (the rounding   *)
(* of binary floating point is not modelled).  In Spec and SpecCrowd       *)
(* q_table is NoTables and the values are not followed.                    *)
(***************************************************************************)
EXTENDS Integers, Sequences, FiniteSets, TLC

(* ----------------------------- program constants ----------------------- *)
SCREEN_WIDTH == 800
SCREEN_HEIGHT == 600
CELL_SIZE == 40
ROWS == SCREEN_HEIGHT \div CELL_SIZE
COLS == SCREEN_WIDTH \div CELL_SIZE

EMPTY == 0
DESTRUCTIBLE == 1
INDESTRUCTIBLE == 2
ACTION_NAMES == <<"UP", "DOWN", "LEFT", "RIGHT", "PLACE_BOMB">>
action_size == Len(ACTION_NAMES)
ActionIds == 0 .. action_size - 1

START_LIVES == 3
BOMB_TIMER == 30
update_interval == 5
BLAST_REACH == 2
DEAD_REWARD == 100
MOVE_REWARD == 5
START_ROW == 1
START_COL == 1
START_GAP == 3
ALPHA_TENTHS == 1
GAMMA_TENTHS == 9
DEFAULT_MAX_EPISODES == 1000

(* ----------------------------- bounds of the model --------------------- *)
MaxAgents == 2
ArenaUp == 0
ArenaDown == 0
ArenaCols == 4
BlockSpan == 1
MaxBlocks == 1
MaxBombs == 2
MaxEpisodes == 1
WriteCap == 1
MaxCrowd == 8
DeltaTimes == {3, 5, 12}
MaxDepth == 2
MaxEntries == 2
QUnit == 100 ^ MaxDepth

VARIABLES
    num_agents,        \* self.num_agents
    grid,              \* self.grid, a function of <<row, col>>
    agent_positions,   \* self.agent_positions
    lives,             \* self.lives
    game_over,         \* self.game_over
    bombs,             \* self.bombs, a sequence of records
    bomb_ticks,        \* history: per active bomb, the ticks begun since its placement
    current_episode,   \* self.current_episode
    time_accumulator,  \* self.time_accumulator
    pc,                \* where on_update is
    bomb_k,            \* position of the bomb loop in the snapshot self.bombs[:]
    snap_n,            \* length of the snapshot self.bombs[:]
    agent_i,           \* index of the agent loop
    reward,            \* value returned by the last perform_action of this tick
    affected,          \* affected_positions of the last explode_bomb of this tick
    q_writes,          \* per agent: update() calls applied to its table, up to WriteCap
    updated,           \* the agents whose update() was called by the current tick
    q_file,            \* per agent: the table held by agent_<i+1>_qtable.npy
    saves,             \* per agent: save_q_table calls made by the current on_update
    q_table,           \* per agent: self.agents[i].q_table, or NoTables
    max_episodes,      \* self.max_episodes
    moved,             \* history: the agents that moved successfully in this episode
    call               \* a method called on its own (QLearningAgent's, perform_action), or NoCall

vars == <<num_agents, grid, agent_positions, lives, game_over, bombs, bomb_ticks,
          current_episode, time_accumulator, pc, bomb_k, snap_n, agent_i,
          reward, affected, q_writes, updated, q_file, saves,
          q_table, max_episodes, moved, call>>

Cells == (0 .. ROWS - 1) \X (0 .. COLS - 1)
CellTypes == {EMPTY, DESTRUCTIBLE, INDESTRUCTIBLE}
Agents(n) == 0 .. n - 1
NoReward == <<>>
NoFile == [exists |-> FALSE, table |-> 0]
NoTables == <<>>
NoCall == [op |-> "none"]
Tracked == q_table # NoTables

InBounds(r, c) == 0 <= r /\ r < ROWS /\ 0 <= c /\ c < COLS

(* ----------------------------- setup ----------------------------------- *)
\* The grids setup() is taken to generate: any cell may come out of any type;
\* the model draws grids whose cells are INDESTRUCTIBLE outside an arena around
\* the start row and EMPTY inside it, but for at most MaxBlocks cells right of
\* the first start cell, which are DESTRUCTIBLE or INDESTRUCTIBLE.
Arena == (START_ROW - ArenaUp .. START_ROW + ArenaDown) \X (0 .. ArenaCols - 1)

BlockCells == { c \in Arena : c[2] > START_COL /\ c[2] <= START_COL + BlockSpan }

WalledGrid == [c \in Cells |-> IF c \in Arena THEN EMPTY ELSE INDESTRUCTIBLE]

RECURSIVE GridsWithBlocks(_)
GridsWithBlocks(k) ==
    IF k = 0 THEN {WalledGrid}
    ELSE LET prev == GridsWithBlocks(k - 1)
         IN  prev \cup { [g EXCEPT ![c] = t] :
                           g \in prev, c \in BlockCells, t \in {DESTRUCTIBLE, INDESTRUCTIBLE} }

GridSamples == GridsWithBlocks(MaxBlocks)

StartPositions(n) == [i \in Agents(n) |-> <<START_ROW, START_COL + i * START_GAP>>]

get_state(pos) == pos[1] * COLS + pos[2]

(* ----------------------------- QLearningAgent -------------------------- *)
state_size == ROWS * COLS

\* np.zeros((state_size, action_size)), line 23.
ZeroTable == [shape |-> <<state_size, action_size>>, cells |-> <<>>]

\* q_table[state, action].
QGet(t, state, action) ==
    IF <<state, action>> \in DOMAIN t.cells THEN t.cells[<<state, action>>] ELSE 0

\* The table t with v at [state, action].
QPut(t, state, action, v) ==
    LET keep == IF v = 0 THEN DOMAIN t.cells \ {<<state, action>>}
                ELSE DOMAIN t.cells \cup {<<state, action>>}
    IN  [t EXCEPT !.cells = [e \in keep |-> IF e = <<state, action>> THEN v ELSE t.cells[e]]]

\* np.max(q_table[state]) over the actions from a on.
RECURSIVE AMax(_, _, _)
AMax(t, state, a) ==
    IF a = action_size - 1 THEN QGet(t, state, a)
    ELSE LET rest == AMax(t, state, a + 1)
         IN  IF QGet(t, state, a) >= rest THEN QGet(t, state, a) ELSE rest

\* 100 times the increment of lines 38-40, alpha * (reward + gamma * best - q),
\* with reward an integer and the table values counted in 1/QUnit.
Increment100(t, state, action, r, next_state) ==
    ALPHA_TENTHS * (10 * r * QUnit + GAMMA_TENTHS * AMax(t, next_state, 0)
                    - 10 * QGet(t, state, action))

\* The new value is a whole number of 1/QUnit.
Exact(t, state, action, r, next_state) ==
    Increment100(t, state, action, r, next_state) % 100 = 0

\* update() writing alpha * (reward - q) first and reading the maximum of the
\* next state's row after that write.
q_update_MaxAfter(t, state, action, r, next_state) ==
    LET t1 == QPut(t, state, action,
                   QGet(t, state, action)
                   + (ALPHA_TENTHS * (10 * r * QUnit - 10 * QGet(t, state, action))) \div 100)
    IN  QPut(t1, state, action,
             QGet(t1, state, action)
             + (ALPHA_TENTHS * GAMMA_TENTHS * AMax(t1, next_state, 0)) \div 100)

\* update() writing the new value into the row of next_state.
q_update_AtNext(t, state, action, r, next_state) ==
    QPut(t, next_state, action,
         QGet(t, state, action) + Increment100(t, state, action, r, next_state) \div 100)

\* QLearningAgent.update, lines 35-40: the table after the call.
q_update(t, state, action, r, next_state) ==
    QPut(t, state, action,
         QGet(t, state, action) + Increment100(t, state, action, r, next_state) \div 100)

(* ----------------------------- perform_action -------------------------- *)
\* The cell a movement action aims at (UP = 0, DOWN = 1, LEFT = 2, RIGHT = 3).
Target(pos, action) ==
    CASE action = 0 -> <<pos[1] - 1, pos[2]>>
      [] action = 1 -> <<pos[1] + 1, pos[2]>>
      [] action = 2 -> <<pos[1], pos[2] - 1>>
      [] action = 3 -> <<pos[1], pos[2] + 1>>
      [] OTHER      -> pos

\* The edge test each branch of perform_action makes before it reads the grid.
EdgeFree(pos, action) ==
    CASE action = 0 -> pos[1] > 0
      [] action = 1 -> pos[1] < ROWS - 1
      [] action = 2 -> pos[2] > 0
      [] action = 3 -> pos[2] < COLS - 1
      [] OTHER      -> FALSE

\* Line 125 with row and col exchanged.
NewBomb_Swapped(pos, agent_index) ==
    [row |-> pos[2], col |-> pos[1], timer |-> BOMB_TIMER, owner |-> agent_index]

NewBomb(pos, agent_index) ==
    [row |-> pos[1], col |-> pos[2], timer |-> BOMB_TIMER, owner |-> agent_index]

\* self.grid[r][c] can be read: a Python list takes the indices -len .. len-1
\* and raises IndexError for any other.
Indexable(r, c) == 0 - ROWS <= r /\ r < ROWS /\ 0 - COLS <= c /\ c < COLS

\* self.grid[r][c] for indices that can be read (a negative index counts from
\* the end).
GridAt(g, r, c) ==
    g[<<IF r < 0 THEN r + ROWS ELSE r, IF c < 0 THEN c + COLS ELSE c>>]

\* perform_action with the four cell tests as "!= INDESTRUCTIBLE": an agent
\* walks onto a DESTRUCTIBLE cell.
perform_action_OntoBlock(g, positions, bs, over, agent_index, action) ==
    LET pos == positions[agent_index]
        to  == Target(pos, action)
    IN  IF over[agent_index]
        THEN [pos |-> pos, bombs |-> bs, reward |-> 0 - DEAD_REWARD, raised |-> FALSE]
        ELSE IF action \in 0 .. 3 /\ EdgeFree(pos, action) /\ ~Indexable(to[1], to[2])
        THEN [pos |-> pos, bombs |-> bs, reward |-> 0, raised |-> TRUE]
        ELSE IF action \in 0 .. 3 /\ EdgeFree(pos, action)
                  /\ GridAt(g, to[1], to[2]) # INDESTRUCTIBLE
        THEN [pos |-> to, bombs |-> bs, reward |-> MOVE_REWARD, raised |-> FALSE]
        ELSE IF action = 4
        THEN [pos |-> pos, bombs |-> Append(bs, NewBomb(pos, agent_index)), reward |-> 0,
              raised |-> FALSE]
        ELSE [pos |-> pos, bombs |-> bs, reward |-> 0 - 1, raised |-> FALSE]

\* perform_action without the test of lines 107-108.
perform_action_ActsEliminated(g, positions, bs, over, agent_index, action) ==
    LET pos == positions[agent_index]
        to  == Target(pos, action)
    IN  IF action \in 0 .. 3 /\ EdgeFree(pos, action) /\ ~Indexable(to[1], to[2])
        THEN [pos |-> pos, bombs |-> bs, reward |-> 0, raised |-> TRUE]
        ELSE IF action \in 0 .. 3 /\ EdgeFree(pos, action)
                  /\ GridAt(g, to[1], to[2]) = EMPTY
        THEN [pos |-> to, bombs |-> bs, reward |-> MOVE_REWARD, raised |-> FALSE]
        ELSE IF action = 4
        THEN [pos |-> pos, bombs |-> Append(bs, NewBomb(pos, agent_index)), reward |-> 0,
              raised |-> FALSE]
        ELSE [pos |-> pos, bombs |-> bs, reward |-> 0 - 1, raised |-> FALSE]

\* perform_action(agent_index, action): the agent's new position, the new bomb
\* list and the returned reward; raised tells that the grid read of the
\* action's branch raised IndexError, before anything was assigned.
perform_action(g, positions, bs, over, agent_index, action) ==
    LET pos == positions[agent_index]
        to  == Target(pos, action)
    IN  IF over[agent_index]
        THEN [pos |-> pos, bombs |-> bs, reward |-> 0 - DEAD_REWARD, raised |-> FALSE]
        ELSE IF action \in 0 .. 3 /\ EdgeFree(pos, action) /\ ~Indexable(to[1], to[2])
        THEN [pos |-> pos, bombs |-> bs, reward |-> 0, raised |-> TRUE]
        ELSE IF action \in 0 .. 3 /\ EdgeFree(pos, action)
                  /\ GridAt(g, to[1], to[2]) = EMPTY
        THEN [pos |-> to, bombs |-> bs, reward |-> MOVE_REWARD, raised |-> FALSE]
        ELSE IF action = 4
        THEN [pos |-> pos, bombs |-> Append(bs, NewBomb(pos, agent_index)), reward |-> 0,
              raised |-> FALSE]
        ELSE [pos |-> pos, bombs |-> bs, reward |-> 0 - 1, raised |-> FALSE]

(* ----------------------------- explode_bomb ---------------------------- *)
\* The directions in the order explode_bomb scans them.
Directions == << <<0, 1>>, <<0, -1>>, <<1, 0>>, <<-1, 0>> >>

\* The inner loop without the break of line 143: the blast goes on through a
\* DESTRUCTIBLE cell it has destroyed.
RECURSIVE ScanDir_Through(_, _, _, _, _)
ScanDir_Through(st, row, col, d, i) ==
    IF i > BLAST_REACH THEN st
    ELSE LET r == row + d[1] * i
             c == col + d[2] * i
         IN  IF InBounds(r, c)
             THEN IF st.grid[<<r, c>>] = INDESTRUCTIBLE
                  THEN st
                  ELSE ScanDir_Through(
                          [grid |-> [st.grid EXCEPT ![<<r, c>>] = EMPTY],
                           aff  |-> Append(st.aff, <<r, c>>)],
                          row, col, d, i + 1)
             ELSE ScanDir_Through(st, row, col, d, i + 1)

\* The inner loop "for i in range(1, 3)" for one direction, from distance i on:
\* st.grid is the grid so far, st.aff the affected list so far.
RECURSIVE ScanDir(_, _, _, _, _)
ScanDir(st, row, col, d, i) ==
    IF i > BLAST_REACH THEN st
    ELSE LET r == row + d[1] * i
             c == col + d[2] * i
         IN  IF InBounds(r, c)
             THEN IF st.grid[<<r, c>>] = INDESTRUCTIBLE
                  THEN st
                  ELSE IF st.grid[<<r, c>>] = DESTRUCTIBLE
                  THEN [grid |-> [st.grid EXCEPT ![<<r, c>>] = EMPTY],
                        aff  |-> Append(st.aff, <<r, c>>)]
                  ELSE ScanDir([grid |-> st.grid, aff |-> Append(st.aff, <<r, c>>)],
                               row, col, d, i + 1)
             ELSE ScanDir(st, row, col, d, i + 1)

\* The outer loop over the four directions, from direction number k on.
RECURSIVE ScanAll(_, _, _, _)
ScanAll(st, row, col, k) ==
    IF k > Len(Directions) THEN st
    ELSE ScanAll(ScanDir(st, row, col, Directions[k], 1), row, col, k + 1)

\* Lines 131-143: the grid after the blast and the affected positions.
Blast(g, row, col) ==
    ScanAll([grid |-> g, aff |-> << <<row, col>> >>], row, col, 1)

SeqToSet(s) == { s[k] : k \in 1 .. Len(s) }

\* The damage loop without "and not self.game_over[i]" in line 146.
Damage_HitsEliminated(aff, positions, lv, over) ==
    LET hit(i) == positions[i] \in SeqToSet(aff)
        lv2 == [i \in DOMAIN lv |-> IF hit(i) THEN lv[i] - 1 ELSE lv[i]]
    IN  [lives |-> lv2,
         game_over |-> [i \in DOMAIN over |-> IF hit(i) /\ lv2[i] <= 0 THEN TRUE ELSE over[i]]]

\* The damage loop with "<" for "<=" in line 148.
Damage_LateElimination(aff, positions, lv, over) ==
    LET hit(i) == positions[i] \in SeqToSet(aff) /\ ~over[i]
        lv2 == [i \in DOMAIN lv |-> IF hit(i) THEN lv[i] - 1 ELSE lv[i]]
    IN  [lives |-> lv2,
         game_over |-> [i \in DOMAIN over |-> IF hit(i) /\ lv2[i] < 0 THEN TRUE ELSE over[i]]]

\* Lines 145-149: lives and game_over after the damage loop.
Damage(aff, positions, lv, over) ==
    LET hit(i) == positions[i] \in SeqToSet(aff) /\ ~over[i]
        lv2 == [i \in DOMAIN lv |-> IF hit(i) THEN lv[i] - 1 ELSE lv[i]]
    IN  [lives |-> lv2,
         game_over |-> [i \in DOMAIN over |-> IF hit(i) /\ lv2[i] <= 0 THEN TRUE ELSE over[i]]]

explode_bomb(bomb, g, positions, lv, over) ==
    LET b == Blast(g, bomb.row, bomb.col)
        d == Damage(b.aff, positions, lv, over)
    IN  [grid |-> b.grid, affected |-> b.aff, lives |-> d.lives, game_over |-> d.game_over]

\* The position list.remove(x) deletes: that of the first element equal to x.
FirstIndex(s, x) ==
    CHOOSE k \in 1 .. Len(s) : s[k] = x /\ \A j \in 1 .. k - 1 : s[j] # x

RemoveAt(s, k) == SubSeq(s, 1, k - 1) \o SubSeq(s, k + 1, Len(s))

\* list.remove(x): the list without its first element equal to x.
RemoveFirst(s, x) == RemoveAt(s, FirstIndex(s, x))

(* ----------------------------- state after construction ---------------- *)
\* setup() forgetting line 97: the bombs of the finished episode stay.
Setup_KeepBombs(g) ==
    /\ grid' = g
    /\ agent_positions' = StartPositions(num_agents)
    /\ lives' = [i \in Agents(num_agents) |-> START_LIVES]
    /\ UNCHANGED <<bombs, bomb_ticks>>
    /\ game_over' = [i \in Agents(num_agents) |-> FALSE]
    /\ moved' = {}

\* setup(), lines 84-98, with the generated grid g.
Setup(g) ==
    /\ grid' = g
    /\ agent_positions' = StartPositions(num_agents)
    /\ lives' = [i \in Agents(num_agents) |-> START_LIVES]
    /\ bombs' = <<>>
    /\ bomb_ticks' = <<>>
    /\ game_over' = [i \in Agents(num_agents) |-> FALSE]
    /\ moved' = {}

\* __init__ for n agents and max_episodes = limit, with no stored table (each
\* table starts as zeros: tables, or NoTables where the values are not
\* followed), then setup().
InitGame(n, tables, limit) ==
    /\ num_agents = n
    /\ grid \in GridSamples
    /\ agent_positions = StartPositions(n)
    /\ lives = [i \in Agents(n) |-> START_LIVES]
    /\ game_over = [i \in Agents(n) |-> FALSE]
    /\ bombs = <<>>
    /\ bomb_ticks = <<>>
    /\ current_episode = 0
    /\ time_accumulator = 0
    /\ pc = "idle"
    /\ bomb_k = 0
    /\ snap_n = 0
    /\ agent_i = 0
    /\ reward = NoReward
    /\ affected = <<>>
    /\ q_writes = [i \in Agents(n) |-> 0]
    /\ updated = {}
    /\ q_file = [i \in Agents(n) |-> NoFile]
    /\ saves = [i \in Agents(n) |-> 0]
    /\ q_table = tables
    /\ max_episodes = limit
    /\ moved = {}
    /\ call = NoCall

InitFor(n) == InitGame(n, NoTables, DEFAULT_MAX_EPISODES)

Init == \E n \in 1 .. MaxAgents : InitFor(n)

(* ----------------------------- on_update ------------------------------- *)
NoSaves == [i \in Agents(num_agents) |-> 0]

\* Lines 184-186: the accumulated time is still below the interval.
OnUpdateWait(delta_time) ==
    /\ pc = "idle"
    /\ current_episode < MaxEpisodes
    /\ time_accumulator + delta_time < update_interval
    /\ time_accumulator' = time_accumulator + delta_time
    /\ saves' = NoSaves
    /\ UNCHANGED <<num_agents, grid, agent_positions, lives, game_over, bombs, bomb_ticks,
                   current_episode, pc, bomb_k, snap_n, agent_i, reward, affected,
                   q_writes, updated, q_file>>
    /\ UNCHANGED <<q_table, max_episodes, moved, call>>

\* on_update returning at once when current_episode has reached max_episodes.
OnUpdateTick_Stops(delta_time) ==
    /\ pc = "idle"
    /\ current_episode < MaxEpisodes
    /\ current_episode < max_episodes
    /\ time_accumulator + delta_time >= update_interval
    /\ time_accumulator' = 0
    /\ saves' = NoSaves
    /\ snap_n' = Len(bombs)
    /\ bomb_k' = IF Len(bombs) = 0 THEN 0 ELSE 1
    /\ pc' = IF Len(bombs) = 0 THEN "agents" ELSE "bombs"
    /\ agent_i' = 0
    /\ updated' = {}
    /\ bomb_ticks' = [k \in DOMAIN bomb_ticks |-> bomb_ticks[k] + 1]
    /\ UNCHANGED <<num_agents, grid, agent_positions, lives, game_over, bombs,
                   current_episode, reward, affected, q_writes, q_file>>
    /\ UNCHANGED <<q_table, max_episodes, moved, call>>

\* Line 187 as time_accumulator -= update_interval: the remainder is kept.
OnUpdateTick_CarryRemainder(delta_time) ==
    /\ pc = "idle"
    /\ current_episode < MaxEpisodes
    /\ time_accumulator + delta_time >= update_interval
    /\ time_accumulator' = time_accumulator + delta_time - update_interval
    /\ saves' = NoSaves
    /\ snap_n' = Len(bombs)
    /\ bomb_k' = IF Len(bombs) = 0 THEN 0 ELSE 1
    /\ pc' = IF Len(bombs) = 0 THEN "agents" ELSE "bombs"
    /\ agent_i' = 0
    /\ updated' = {}
    /\ bomb_ticks' = [k \in DOMAIN bomb_ticks |-> bomb_ticks[k] + 1]
    /\ UNCHANGED <<num_agents, grid, agent_positions, lives, game_over, bombs,
                   current_episode, reward, affected, q_writes, q_file>>
    /\ UNCHANGED <<q_table, max_episodes, moved, call>>

\* Lines 184-189: the interval is reached; the bomb loop starts on the snapshot.
OnUpdateTick(delta_time) ==
    /\ pc = "idle"
    /\ current_episode < MaxEpisodes
    /\ time_accumulator + delta_time >= update_interval
    /\ time_accumulator' = 0
    /\ saves' = NoSaves
    /\ snap_n' = Len(bombs)
    /\ bomb_k' = IF Len(bombs) = 0 THEN 0 ELSE 1
    /\ pc' = IF Len(bombs) = 0 THEN "agents" ELSE "bombs"
    /\ agent_i' = 0
    /\ updated' = {}
    /\ bomb_ticks' = [k \in DOMAIN bomb_ticks |-> bomb_ticks[k] + 1]
    /\ UNCHANGED <<num_agents, grid, agent_positions, lives, game_over, bombs,
                   current_episode, reward, affected, q_writes, q_file>>
    /\ UNCHANGED <<q_table, max_episodes, moved, call>>

\* Where the k-th bomb of the snapshot (length n) sits in the live list (length
\* len): every removal so far took an element at or before it.
LiveIndex(k, n, len) == k - (n - len)

\* Line 190 counting the interval twice.
Countdown_Twice(bomb) == [bomb EXCEPT !.timer = @ - 2 * update_interval]

\* Line 190.
Countdown(bomb) == [bomb EXCEPT !.timer = @ - update_interval]

\* Line 191 with "<" for "<=".
Expired_Strict(bomb) == bomb.timer < 0

\* Line 191.
Expired(bomb) == bomb.timer <= 0

\* The loop goes to the next bomb of the snapshot or, after the last one, ends
\* (the snapshot is dropped).
BombLoopNext ==
    /\ bomb_k' = IF bomb_k = snap_n THEN 0 ELSE bomb_k + 1
    /\ snap_n' = IF bomb_k = snap_n THEN 0 ELSE snap_n
    /\ pc' = IF bomb_k = snap_n THEN "agents" ELSE "bombs"
    /\ agent_i' = 0

\* One round of the bomb loop, lines 189-191, for a bomb that does not explode.
BombCountdown ==
    /\ pc = "bombs"
    /\ LET idx == LiveIndex(bomb_k, snap_n, Len(bombs))
           b   == Countdown(bombs[idx])
       IN  /\ ~Expired(b)
           /\ bombs' = [bombs EXCEPT ![idx] = b]
    /\ BombLoopNext
    /\ UNCHANGED <<num_agents, grid, agent_positions, lives, game_over, bomb_ticks,
                   current_episode, time_accumulator, reward, affected,
                   q_writes, updated, q_file, saves>>
    /\ UNCHANGED <<q_table, max_episodes, moved, call>>

\* One round of the bomb loop, lines 189-193, for a bomb that explodes.
BombExplode ==
    /\ pc = "bombs"
    /\ LET idx == LiveIndex(bomb_k, snap_n, Len(bombs))
           b   == Countdown(bombs[idx])
           e   == explode_bomb(b, grid, agent_positions, lives, game_over)
       IN  /\ Expired(b)
           /\ grid' = e.grid
           /\ lives' = e.lives
           /\ game_over' = e.game_over
           /\ affected' = e.affected
           /\ bombs' = RemoveFirst([bombs EXCEPT ![idx] = b], b)
           /\ bomb_ticks' = RemoveAt(bomb_ticks, FirstIndex([bombs EXCEPT ![idx] = b], b))
    /\ BombLoopNext
    /\ UNCHANGED <<num_agents, agent_positions, current_episode, time_accumulator,
                   reward, q_writes, updated, q_file, saves>>
    /\ UNCHANGED <<q_table, max_episodes, moved, call>>

AgentLoopNext ==
    /\ agent_i' = IF agent_i = num_agents - 1 THEN 0 ELSE agent_i + 1
    /\ pc' = IF agent_i = num_agents - 1 THEN "check" ELSE "agents"

\* Line 196 missing: no agent is passed over.
Eliminated_Never(i) == FALSE

\* Line 196: the test that passes over an eliminated agent.
Eliminated(i) == game_over[i]

\* Lines 196-197: an eliminated agent is passed over.
AgentSkip ==
    /\ pc = "agents"
    /\ Eliminated(agent_i)
    /\ AgentLoopNext
    /\ UNCHANGED <<num_agents, grid, agent_positions, lives, game_over, bombs, bomb_ticks,
                   current_episode, time_accumulator, bomb_k, snap_n, reward,
                   affected, q_writes, updated, q_file, saves>>
    /\ UNCHANGED <<q_table, max_episodes, moved, call>>

\* QLearningAgent.update on the table of agent i: one more write.
update(writes, i) == [writes EXCEPT ![i] = IF @ < WriteCap THEN @ + 1 ELSE @]

Owned(bs, i) == Cardinality({ k \in 1 .. Len(bs) : bs[k].owner = i })

\* The share of MaxBombs agent i may own at a time: an equal share, and what
\* is left over goes to the last agent.
Share(n, i) == MaxBombs \div n + (IF i = n - 1 THEN MaxBombs % n ELSE 0)

\* The actions choose_action is taken to draw for agent i: any of the five, but
\* PLACE_BOMB only while the agent owns less than its share of MaxBombs.
\* Where the tables are followed, the draws are PLACE_BOMB for as long as the
\* agent has all its lives (a zero table stays zero under reward 0), and any
\* of the five afterwards.
Drawn(bs, n, i) ==
    IF Tracked
    THEN IF lives[i] = START_LIVES THEN {4} ELSE ActionIds
    ELSE { a \in ActionIds : a = 4 => Owned(bs, i) < Share(n, i) }

\* Lines 198-202 for the agent agent_i.  An IndexError raised by perform_action
\* leaves on_update before update() is called; nothing catches it and the
\* program ends (pc = "raised").
AgentStep(action) ==
    /\ pc = "agents"
    /\ ~Eliminated(agent_i)
    /\ action \in Drawn(bombs, num_agents, agent_i)
    /\ LET p == perform_action(grid, agent_positions, bombs, game_over, agent_i, action)
           current_state == get_state(agent_positions[agent_i])
           next_state == get_state(p.pos)
       IN  IF p.raised
           THEN /\ pc' = "raised"
                /\ reward' = NoReward
                /\ UNCHANGED <<agent_positions, bombs, bomb_ticks, q_writes,
                               updated, agent_i, q_table, moved>>
           ELSE /\ agent_positions' = [agent_positions EXCEPT ![agent_i] = p.pos]
                /\ bombs' = p.bombs
                /\ bomb_ticks' = bomb_ticks \o [k \in 1 .. Len(p.bombs) - Len(bombs) |-> 0]
                /\ reward' = <<p.reward>>
                /\ moved' = IF p.pos # agent_positions[agent_i]
                            THEN moved \cup {agent_i} ELSE moved
                /\ q_writes' = update(q_writes, agent_i)
                /\ updated' = updated \cup {agent_i}
                /\ Tracked => Exact(q_table[agent_i], current_state, action,
                                    p.reward, next_state)
                /\ q_table' = IF Tracked
                              THEN [q_table EXCEPT ![agent_i] =
                                      q_update(@, current_state, action, p.reward, next_state)]
                              ELSE q_table
                /\ AgentLoopNext
    /\ UNCHANGED <<num_agents, grid, lives, game_over, current_episode,
                   time_accumulator, bomb_k, snap_n, affected, q_file, saves,
                   max_episodes, call>>

\* save_q_table for every agent, lines 207-208.
SaveAll ==
    /\ q_file' = [i \in Agents(num_agents) |->
                    [exists |-> TRUE,
                     table |-> IF Tracked THEN q_table[i] ELSE q_writes[i]]]
    /\ saves' = [i \in Agents(num_agents) |-> saves[i] + 1]

\* Lines 204-209: every agent is eliminated.
EpisodeReset ==
    /\ pc = "check"
    /\ \A i \in Agents(num_agents) : game_over[i]
    /\ current_episode' = current_episode + 1
    /\ SaveAll
    /\ \E g \in GridSamples : Setup(g)
    /\ pc' = "idle"
    /\ reward' = NoReward
    /\ affected' = <<>>
    /\ UNCHANGED <<num_agents, time_accumulator, bomb_k, snap_n, agent_i, q_writes,
                   updated>>
    /\ UNCHANGED <<q_table, max_episodes, call>>

\* Line 204, the test fails: on_update returns.
EpisodeContinue ==
    /\ pc = "check"
    /\ \E i \in Agents(num_agents) : ~game_over[i]
    /\ pc' = "idle"
    /\ reward' = NoReward
    /\ affected' = <<>>
    /\ UNCHANGED <<num_agents, grid, agent_positions, lives, game_over, bombs, bomb_ticks,
                   current_episode, time_accumulator, bomb_k, snap_n, agent_i,
                   q_writes, updated, q_file, saves>>
    /\ UNCHANGED <<q_table, max_episodes, moved, call>>

Next ==
    \/ \E dt \in DeltaTimes : OnUpdateWait(dt)
    \/ \E dt \in DeltaTimes : OnUpdateTick(dt)
    \/ BombCountdown
    \/ BombExplode
    \/ AgentSkip
    \/ \E a \in ActionIds : AgentStep(a)
    \/ EpisodeReset
    \/ EpisodeContinue

Spec == Init /\ [][Next]_vars

(* ----------------------------- more agents ----------------------------- *)
\* The numbers of agents above MaxAgents, up to MaxCrowd.  Only the last agent
\* has a share of MaxBombs, so that no episode ends.
CrowdSizes == MaxAgents + 1 .. MaxCrowd

InitCrowd == \E n \in CrowdSizes : InitFor(n)

NextCrowd ==
    \/ \E dt \in DeltaTimes : OnUpdateWait(dt)
    \/ \E dt \in DeltaTimes : OnUpdateTick(dt)
    \/ BombCountdown
    \/ BombExplode
    \/ AgentSkip
    \/ \E a \in ActionIds : AgentStep(a)
    \/ EpisodeContinue

SpecCrowd == InitCrowd /\ [][NextCrowd]_vars

TypeOK ==
    /\ num_agents \in 1 .. MaxCrowd
    /\ pc \in {"idle", "bombs", "agents", "check", "raised"}
    /\ grid \in [Cells -> CellTypes]
    /\ Len(bomb_ticks) = Len(bombs)
    /\ \A k \in 1 .. Len(bombs) : bombs[k].owner \in Agents(num_agents)
    /\ time_accumulator \in 0 .. update_interval - 1
    /\ current_episode \in 0 .. MaxEpisodes
    /\ updated \subseteq Agents(num_agents)

(* ----------------------------- tables followed -------------------------- *)
\* The game with the values of the tables followed, from zero tables, for
\* every max_episodes up to MaxEpisodes.
InitLearn ==
    \E n \in 1 .. MaxAgents, limit \in 0 .. MaxEpisodes :
        InitGame(n, [i \in Agents(n) |-> ZeroTable], limit)

SpecLearn == InitLearn /\ [][Next]_vars

(* ----------------------------- perform_action called directly ---------- *)
\* perform_action is a public method: between two on_update calls a caller
\* outside the agent loop calls it for an eliminated agent, with any action.
\* The call assigns what perform_action assigns (the position, the bomb list)
\* and call records the arguments, the returned reward and whether it raised.
PerformCall ==
    /\ pc = "idle"
    /\ \E agent_index \in Agents(num_agents), action \in ActionIds :
          /\ game_over[agent_index]
          /\ LET p == perform_action(grid, agent_positions, bombs, game_over,
                                     agent_index, action)
             IN  /\ agent_positions' = IF p.raised THEN agent_positions
                                       ELSE [agent_positions EXCEPT ![agent_index] = p.pos]
                 /\ bombs' = IF p.raised THEN bombs ELSE p.bombs
                 /\ bomb_ticks' = bomb_ticks \o [k \in 1 .. Len(bombs') - Len(bombs) |-> 0]
                 /\ call' = [op |-> "perform", agent_index |-> agent_index,
                             action |-> action, reward |-> p.reward, raised |-> p.raised]
    /\ UNCHANGED <<num_agents, grid, lives, game_over, current_episode, time_accumulator,
                   pc, bomb_k, snap_n, agent_i, reward, affected, q_writes, updated,
                   q_file, saves, q_table, max_episodes, moved>>

NextCall == Next \/ PerformCall

SpecCall == InitLearn /\ [][NextCall]_vars

(* ----------------------------- QLearningAgent alone -------------------- *)
\* The methods of one QLearningAgent called on their own: the table is drawn
\* from UnitTables, then one call is drawn (UnitCall) and made.
UnitStates == { get_state(<<START_ROW, START_COL>>), get_state(<<START_ROW, START_COL + 1>>) }

UnitEntries == UnitStates \X ActionIds

UnitValues == { 0 - QUnit, QUnit, 2 * QUnit }

\* The tables of the right shape with at most MaxEntries non-zero entries.
UnitTables ==
    { [shape |-> <<state_size, action_size>>, cells |-> c] :
        c \in UNION { [D -> UnitValues] :
                        D \in { X \in SUBSET UnitEntries : Cardinality(X) <= MaxEntries } } }

UnitRewards == { 0 - DEAD_REWARD, 0 - 1, 0, MOVE_REWARD }

\* What agent_<i+1>_qtable.npy can be: missing, not readable as an array, or
\* an array of some shape.
UnitFiles ==
    { [kind |-> "missing"], [kind |-> "unreadable"] }
    \cup { [kind |-> "array", table |-> [shape |-> sh, cells |-> c]] :
             sh \in { <<state_size, action_size>>, <<state_size, action_size - 1>>,
                      <<MaxEntries, action_size>> },
             c \in { <<>> } \cup { [e \in {<<0, 0>>} |-> v] : v \in UnitValues } }

UnitCalls ==
    { [op |-> "update", state |-> st, action |-> a, reward |-> r, next_state |-> nx,
       done |-> FALSE, before |-> ZeroTable] :
         st \in UnitStates, a \in ActionIds, r \in UnitRewards, nx \in UnitStates }
    \cup { [op |-> "choose", state |-> st, explore |-> ex, draw |-> a,
             done |-> FALSE, result |-> 0] :
             st \in UnitStates, ex \in BOOLEAN, a \in ActionIds }
    \cup { [op |-> "load", file |-> f, done |-> FALSE, raised |-> FALSE] : f \in UnitFiles }

\* np.argmax(q_table[state]) with ties going to the highest index.
ArgMax_Last(t, state, a) ==
    CHOOSE k \in a .. action_size - 1 :
        /\ QGet(t, state, k) = AMax(t, state, a)
        /\ \A j \in k + 1 .. action_size - 1 : QGet(t, state, j) < AMax(t, state, a)

\* np.argmax(q_table[state]) searched from action a on: the first index that
\* holds the maximum.
RECURSIVE ArgMax(_, _, _)
ArgMax(t, state, a) ==
    IF a = action_size - 1 \/ QGet(t, state, a) = AMax(t, state, 0) THEN a
    ELSE ArgMax(t, state, a + 1)

\* choose_action, lines 29-33: explore tells that np.random.random() came out
\* below epsilon, draw is what np.random.randint(action_size) returns.
choose_action(t, state, explore, draw) ==
    IF explore THEN draw ELSE ArgMax(t, state, 0)

\* load_q_table, lines 46-52: the table after the call, and whether np.load
\* raised an exception other than FileNotFoundError, which nothing catches.
load_q_table(t, file) ==
    CASE file.kind = "missing"    -> [table |-> t, raised |-> FALSE]
      [] file.kind = "array"      -> [table |-> file.table, raised |-> FALSE]
      [] file.kind = "unreadable" -> [table |-> t, raised |-> TRUE]

UnitFrame ==
    UNCHANGED <<num_agents, grid, agent_positions, lives, game_over, bombs, bomb_ticks,
                current_episode, time_accumulator, pc, bomb_k, snap_n, agent_i,
                reward, affected, q_writes, updated, q_file, saves, max_episodes, moved>>

\* A call is drawn; load_q_table is called on the fresh table, as __init__ does.
UnitCall ==
    /\ call = NoCall
    /\ \E c \in UnitCalls :
          /\ c.op = "load" => q_table[0] = ZeroTable
          /\ c.op = "update" =>
                Exact(q_table[0], c.state, c.action, c.reward, c.next_state)
          /\ call' = c
    /\ UNCHANGED q_table
    /\ UnitFrame

UnitUpdate ==
    /\ call.op = "update" /\ ~call.done
    /\ q_table' = [q_table EXCEPT ![0] =
                      q_update(@, call.state, call.action, call.reward, call.next_state)]
    /\ call' = [call EXCEPT !.done = TRUE, !.before = q_table[0]]
    /\ UnitFrame

UnitChoose ==
    /\ call.op = "choose" /\ ~call.done
    /\ call' = [call EXCEPT !.done = TRUE,
                            !.result = choose_action(q_table[0], call.state,
                                                     call.explore, call.draw)]
    /\ UNCHANGED q_table
    /\ UnitFrame

UnitLoad ==
    /\ call.op = "load" /\ ~call.done
    /\ LET l == load_q_table(q_table[0], call.file)
       IN  /\ q_table' = [q_table EXCEPT ![0] = l.table]
           /\ call' = [call EXCEPT !.done = TRUE, !.raised = l.raised]
    /\ UnitFrame

InitAgent ==
    \E t \in UnitTables : InitGame(1, [i \in Agents(1) |-> t], DEFAULT_MAX_EPISODES)

NextAgent == UnitCall \/ UnitUpdate \/ UnitChoose \/ UnitLoad

SpecAgent == InitAgent /\ [][NextAgent]_vars

(* ======================================================================= *)
(* The claims                                                              *)
(* ======================================================================= *)
AllOver == \A i \in Agents(num_agents) : game_over[i]

\* A step that leaves the all(game_over) test of line 204.
LeavesCheck == pc = "check" /\ pc' = "idle"

\* A step of the bomb loop in which the bomb exploded (it left the list).
ExplodeStep == pc = "bombs" /\ Len(bombs') < Len(bombs)

\* The bomb the bomb loop is at.
CurrentBomb == bombs[bomb_k - (snap_n - Len(bombs))]

(* ----------------------------------------------------------------------- *)
(* C1. Episode boundary: the episode counter changes only at the end of a  *)
(* tick in which every agent is eliminated, and then by exactly 1; in that *)
(* step every table is saved exactly once, the grid is generated anew, the *)
(* bombs are cleared, every agent is back at its start cell with 3 lives   *)
(* and game_over FALSE, and every Q-table is what it was before the reset. *)
(* At the end of a tick with an agent still in play nothing of this        *)
(* happens; no other step saves a table.                                   *)
(* ----------------------------------------------------------------------- *)
C1_ResetEffect ==
    /\ current_episode' = current_episode + 1
    /\ saves' = [i \in Agents(num_agents) |-> 1]
    /\ q_file' = [i \in Agents(num_agents) |-> [exists |-> TRUE, table |-> q_writes[i]]]
    /\ grid' \in GridSamples
    /\ bombs' = <<>>
    /\ agent_positions' = [i \in Agents(num_agents) |-> <<1, 1 + 3 * i>>]
    /\ lives' = [i \in Agents(num_agents) |-> 3]
    /\ game_over' = [i \in Agents(num_agents) |-> FALSE]
    /\ q_writes' = q_writes

C1_NoReset ==
    /\ current_episode' = current_episode
    /\ q_file' = q_file
    /\ \A i \in Agents(num_agents) : saves'[i] = 0
    /\ UNCHANGED <<grid, bombs, agent_positions, lives, game_over, q_writes>>

C1_EpisodeBoundary ==
    [][ /\ (LeavesCheck /\ AllOver) => C1_ResetEffect
        /\ (LeavesCheck /\ ~AllOver) => C1_NoReset
        /\ ~LeavesCheck => /\ current_episode' = current_episode
                           /\ q_file' = q_file
                           /\ \A i \in Agents(num_agents) : saves'[i] = 0 ]_vars

\* A reset of a two-agent game whose tables had been written and whose bomb
\* list was not empty when the last agent was eliminated is behind us.
C1_Witness ==
    /\ num_agents = 2
    /\ current_episode = 1
    /\ pc = "idle"
    /\ \A i \in Agents(num_agents) :
          saves[i] = 1 /\ q_file[i].exists /\ q_file[i].table = 1 /\ lives[i] = 3

(* ----------------------------------------------------------------------- *)
(* C2. Damage of one explosion: every agent that is not eliminated and     *)
(* stands on an affected position loses exactly one life, every other      *)
(* agent keeps its lives; an agent is marked eliminated in that explosion  *)
(* exactly when its lives reach 0 there; lives never go below 0.           *)
(* ----------------------------------------------------------------------- *)
C2_Hit(i) == ~game_over[i] /\ agent_positions[i] \in SeqToSet(affected')

C2_Damage ==
    [][ ExplodeStep =>
          \A i \in Agents(num_agents) :
             /\ lives'[i] = IF C2_Hit(i) THEN lives[i] - 1 ELSE lives[i]
             /\ game_over'[i] = (game_over[i] \/ (C2_Hit(i) /\ lives'[i] = 0))
             /\ lives'[i] >= 0 ]_vars

\* An explosion has just covered both agents: one was eliminated already or is
\* now (0 lives), the other has lost a life and plays on.
C2_Witness ==
    /\ num_agents = 2
    /\ affected # <<>>
    /\ \A i \in Agents(num_agents) : agent_positions[i] \in SeqToSet(affected)
    /\ \E i, j \in Agents(num_agents) :
          /\ game_over[i] /\ lives[i] = 0
          /\ ~game_over[j] /\ lives[j] \in 1 .. 2

(* ----------------------------------------------------------------------- *)
(* C3. Blast shape: the affected positions of an explosion are the bomb's  *)
(* cell and, in each of the four axis directions, the in-grid cells at     *)
(* distance 1 and 2 that are not INDESTRUCTIBLE and have only EMPTY cells  *)
(* between them and the bomb; each is listed once.  The grid changes only  *)
(* in the affected DESTRUCTIBLE cells, which become EMPTY.                 *)
(* ----------------------------------------------------------------------- *)
C3_Axes == { <<0, 1>>, <<0, -1>>, <<1, 0>>, <<-1, 0>> }

C3_Cell(row, col, d, k) == <<row + d[1] * k, col + d[2] * k>>

C3_Reached(g, row, col, d, k) ==
    /\ C3_Cell(row, col, d, k) \in Cells
    /\ g[C3_Cell(row, col, d, k)] # INDESTRUCTIBLE
    /\ \A j \in 1 .. k - 1 : g[C3_Cell(row, col, d, j)] = EMPTY

C3_Expected(g, row, col) ==
    {<<row, col>>} \cup
    { C3_Cell(row, col, dk[1], dk[2]) :
        dk \in { x \in C3_Axes \X (1 .. 2) : C3_Reached(g, row, col, x[1], x[2]) } }

C3_BlastShape ==
    [][ ExplodeStep =>
          LET E == C3_Expected(grid, CurrentBomb.row, CurrentBomb.col)
          IN  /\ SeqToSet(affected') = E
              /\ Len(affected') = Cardinality(E)
              /\ grid' = [c \in Cells |->
                            IF c \in E /\ grid[c] = DESTRUCTIBLE THEN EMPTY ELSE grid[c]] ]_vars

\* The last explosion reached the cell next to the bomb in some direction and
\* not the EMPTY cell behind it: the blast was absorbed by a DESTRUCTIBLE cell
\* at distance 1, which is EMPTY now.
C3_Witness ==
    /\ affected # <<>>
    /\ \E d \in C3_Axes :
          LET c1 == C3_Cell(affected[1][1], affected[1][2], d, 1)
              c2 == C3_Cell(affected[1][1], affected[1][2], d, 2)
          IN  /\ c1 \in SeqToSet(affected)
              /\ c2 \in Cells
              /\ grid[c1] = EMPTY
              /\ grid[c2] = EMPTY
              /\ c2 \notin SeqToSet(affected)

(* ----------------------------------------------------------------------- *)
(* C4. Fuse timing: outside the bomb loop a bomb that has seen n ticks     *)
(* begin since its placement has n <= 5 and timer 3 - 0.5 n (30 - 5 n      *)
(* tenths); a bomb leaves the active set only by exploding in the bomb     *)
(* phase of its 6th tick, where it always explodes, or by the episode      *)
(* reset; an explosion removes that one bomb and leaves every other bomb   *)
(* as it was.                                                              *)
(* ----------------------------------------------------------------------- *)
C4_Steady ==
    (pc # "bombs" /\ Len(bomb_ticks) = Len(bombs)) =>
        \A k \in 1 .. Len(bombs) :
            bomb_ticks[k] \in 0 .. 5 /\ bombs[k].timer = 30 - 5 * bomb_ticks[k]

C4_Idx == bomb_k - (snap_n - Len(bombs))

C4_Without(s, k) == [j \in 1 .. Len(s) - 1 |-> IF j < k THEN s[j] ELSE s[j + 1]]

C4_Removal ==
    /\ Len(bombs') < Len(bombs) =>
          \/ LeavesCheck /\ AllOver
          \/ /\ pc = "bombs"
             /\ bomb_ticks[C4_Idx] = 6
             /\ bombs' = C4_Without(bombs, C4_Idx)
    /\ (pc = "bombs" /\ bomb_ticks[C4_Idx] = 6) => Len(bombs') = Len(bombs) - 1
    /\ (pc = "bombs" /\ bomb_ticks[C4_Idx] < 6) =>
          /\ Len(bombs') = Len(bombs)
          /\ \A k \in 1 .. Len(bombs) : k # C4_Idx => bombs'[k] = bombs[k]

C4_FuseTiming == []C4_Steady /\ [][C4_Removal]_vars

\* Two bombs placed in different ticks are active, the older one after the
\* fifth tick since its placement (timer 0.5), the younger one untouched by
\* any explosion so far in its second tick.
C4_Witness ==
    /\ pc = "idle"
    /\ Len(bombs) = 2
    /\ bomb_ticks = <<5, 2>>
    /\ bombs[1].timer = 5
    /\ bombs[2].timer = 20

(* ----------------------------------------------------------------------- *)
(* C5. Countdown per tick: while the bomb loop runs, the bombs before its  *)
(* position have been decreased by one interval in this tick and those     *)
(* from its position on have not; each round decreases the timer of the    *)
(* bomb at its position by exactly one interval and removes that bomb,     *)
(* once, exactly when the timer is then <= 0.  After the loop no bomb with *)
(* timer <= 0 is left, every bomb has been decreased once per tick begun   *)
(* since its placement, and a bomb placed in this tick has not.            *)
(* ----------------------------------------------------------------------- *)
C5_Expected(k, done) ==
    BOMB_TIMER - update_interval * (IF done THEN bomb_ticks[k] ELSE bomb_ticks[k] - 1)

C5_Progress ==
    /\ Len(bomb_ticks) = Len(bombs)
    /\ \A k \in 1 .. Len(bombs) :
          /\ bombs[k].timer = C5_Expected(k, pc # "bombs" \/ k < C4_Idx)
          /\ (pc # "bombs" \/ k < C4_Idx) => bombs[k].timer > 0
    /\ pc = "bombs" => /\ C4_Idx \in 1 .. Len(bombs)
                       /\ Len(bombs) - C4_Idx = snap_n - bomb_k

C5_Round ==
    pc = "bombs" =>
        LET t == bombs[C4_Idx].timer - update_interval
        IN  IF t <= 0
            THEN bombs' = C4_Without(bombs, C4_Idx)
            ELSE bombs' = [bombs EXCEPT ![C4_Idx].timer = t]

C5_Countdown == []C5_Progress /\ [][C5_Round]_vars

\* The bomb loop has removed the first bomb of a snapshot of two and stands at
\* the second, not yet decreased.
C5_Witness ==
    /\ pc = "bombs"
    /\ snap_n = 2
    /\ bomb_k = 2
    /\ Len(bombs) = 1
    /\ bombs[1].timer = BOMB_TIMER - update_interval * (bomb_ticks[1] - 1)

(* ----------------------------------------------------------------------- *)
(* C6. Movement: for an agent in play and a movement action,               *)
(* perform_action returns, and the agent                                   *)
(* goes to the adjacent cell and is rewarded 5 when that cell is in the    *)
(* grid and EMPTY; otherwise it stays and is rewarded -1.  The grid, the   *)
(* bombs, all lives and the other agents' positions are unchanged.         *)
(* ----------------------------------------------------------------------- *)
C6_Dest(pos, a) ==
    <<pos[1] + (IF a = 0 THEN 0 - 1 ELSE IF a = 1 THEN 1 ELSE 0),
      pos[2] + (IF a = 2 THEN 0 - 1 ELSE IF a = 3 THEN 1 ELSE 0)>>

C6_Free(c) == c \in Cells /\ grid[c] = EMPTY

C6_Movement ==
    [][ \A a \in 0 .. 3 :
          AgentStep(a) =>
             LET pos == agent_positions[agent_i]
                 to  == C6_Dest(pos, a)
             IN  /\ pc' # "raised"
                 /\ agent_positions'[agent_i] = IF C6_Free(to) THEN to ELSE pos
                 /\ reward' = IF C6_Free(to) THEN <<5>> ELSE <<0 - 1>>
                 /\ \A j \in Agents(num_agents) :
                       j # agent_i => agent_positions'[j] = agent_positions[j]
                 /\ UNCHANGED <<grid, bombs, lives>> ]_vars

\* The eighth agent, set up at column 22, has taken a movement action whose
\* target is off the grid: perform_action raised IndexError.
C6_Witness ==
    /\ pc = "raised"
    /\ num_agents = 8
    /\ agent_i = 7
    /\ agent_positions[7] = <<1, 22>>

(* ----------------------------------------------------------------------- *)
(* C7. PlaceBomb: for an agent in play PLACE_BOMB returns 0 and appends    *)
(* one bomb at the agent's position with timer 3 (30 tenths) and the agent *)
(* as owner, whatever the grid and the bombs already active; the existing  *)
(* bombs, the agent's position, the grid and the lives are unchanged.      *)
(* ----------------------------------------------------------------------- *)
C7_Bomb(i) ==
    [row |-> agent_positions[i][1], col |-> agent_positions[i][2],
     timer |-> 30, owner |-> i]

C7_Step ==
    AgentStep(4) =>
        /\ reward' = <<0>>
        /\ bombs' = Append(bombs, C7_Bomb(agent_i))
        /\ UNCHANGED <<agent_positions, grid, lives>>

C7_Always ==
    \A i \in Agents(num_agents) :
        ~game_over[i] =>
            LET p == perform_action(grid, agent_positions, bombs, game_over, i, 4)
            IN  /\ p.reward = 0
                /\ p.bombs = Append(bombs, C7_Bomb(i))
                /\ p.pos = agent_positions[i]

C7_PlaceBomb == []C7_Always /\ [][C7_Step]_vars

\* The second agent, away from its start cell, has just placed a bomb while a
\* bomb of the first agent was active.
C7_Witness ==
    /\ pc = "check"
    /\ num_agents = 2
    /\ reward = <<0>>
    /\ Len(bombs) = 2
    /\ bombs[1].owner = 0
    /\ bombs[2] = [row |-> 1, col |-> 2, timer |-> 30, owner |-> 1]

(* ----------------------------------------------------------------------- *)
(* C8. An eliminated agent takes no part: whenever an agent is eliminated, *)
(* also by an explosion of the bomb phase of the current tick, its         *)
(* update() has not run in this tick; and until the reset its position     *)
(* does not change, it places no bomb, its table is not written and it     *)
(* stays eliminated.                                                       *)
(* ----------------------------------------------------------------------- *)
C8_NoUpdate == \A i \in Agents(num_agents) : game_over[i] => i \notin updated

C8_BombsOf(bs, i) == Cardinality({ k \in 1 .. Len(bs) : bs[k].owner = i })

C8_Frozen ==
    \A i \in Agents(num_agents) :
        (game_over[i] /\ ~(LeavesCheck /\ AllOver)) =>
            /\ game_over'[i]
            /\ agent_positions'[i] = agent_positions[i]
            /\ q_writes'[i] = q_writes[i]
            /\ i \notin updated'
            /\ C8_BombsOf(bombs', i) <= C8_BombsOf(bombs, i)

C8_EliminatedIdle == []C8_NoUpdate /\ [][C8_Frozen]_vars

\* At the end of a tick whose bomb phase had an explosion covering the first
\* agent, that agent is eliminated and only the second agent has acted.
C8_Witness ==
    /\ pc = "check"
    /\ num_agents = 2
    /\ game_over[0]
    /\ ~game_over[1]
    /\ updated = {1}
    /\ affected # <<>>
    /\ agent_positions[0] \in SeqToSet(affected)

(* ----------------------------------------------------------------------- *)
(* C9. Vitals: lives is in 0..3 and game_over holds exactly when lives is  *)
(* 0.  But for the reset, which gives every agent 3 lives and game_over    *)
(* FALSE, lives never increases and game_over never goes back to FALSE;    *)
(* game_over becomes TRUE only in an explosion that takes the last life.   *)
(* ----------------------------------------------------------------------- *)
C9_Range ==
    \A i \in Agents(num_agents) :
        lives[i] \in 0 .. 3 /\ (game_over[i] <=> lives[i] = 0)

C9_Change ==
    IF LeavesCheck /\ AllOver
    THEN \A i \in Agents(num_agents) : lives'[i] = 3 /\ ~game_over'[i]
    ELSE \A i \in Agents(num_agents) :
            /\ lives'[i] <= lives[i]
            /\ game_over[i] => game_over'[i]
            /\ (~game_over[i] /\ game_over'[i]) =>
                  ExplodeStep /\ lives[i] = 1 /\ lives'[i] = 0

C9_Vitals == []C9_Range /\ [][C9_Change]_vars

\* One agent is eliminated with 0 lives while the other plays on with 1 life.
C9_Witness ==
    /\ num_agents = 2
    /\ lives[0] = 0 /\ game_over[0]
    /\ lives[1] = 1 /\ ~game_over[1]

(* ----------------------------------------------------------------------- *)
(* C10. Positions in bounds: for every number of agents, every agent's     *)
(* position is a cell of the grid, its encoded state is in                 *)
(* 0 .. ROWS*COLS-1, and agents at distinct positions have distinct        *)
(* encoded states.                                                         *)
(* ----------------------------------------------------------------------- *)
C10_InBounds ==
    \A i \in Agents(num_agents) :
        /\ 0 <= agent_positions[i][1] /\ agent_positions[i][1] < ROWS
        /\ 0 <= agent_positions[i][2] /\ agent_positions[i][2] < COLS
        /\ get_state(agent_positions[i]) \in 0 .. ROWS * COLS - 1
        /\ \A j \in Agents(num_agents) :
              agent_positions[i] # agent_positions[j] =>
                  get_state(agent_positions[i]) # get_state(agent_positions[j])

(* ----------------------------------------------------------------------- *)
(* C11. Grid cells: every cell of the grid holds EMPTY, DESTRUCTIBLE or    *)
(* INDESTRUCTIBLE; but for the reset, a cell changes only in an explosion  *)
(* and only from DESTRUCTIBLE to EMPTY; the cell a movement reads (the     *)
(* target, once the edge test has passed) and the cells a blast lists      *)
(* beside the bomb's own are cells of the grid, so that no read fails.     *)
(* ----------------------------------------------------------------------- *)
C11_Typed == DOMAIN grid = Cells /\ \A c \in Cells : grid[c] \in {0, 1, 2}

C11_EdgePassed(pos, a) ==
    \/ a = 0 /\ pos[1] > 0
    \/ a = 1 /\ pos[1] < ROWS - 1
    \/ a = 2 /\ pos[2] > 0
    \/ a = 3 /\ pos[2] < COLS - 1

C11_Step ==
    /\ ~(LeavesCheck /\ AllOver) =>
          \/ grid' = grid
          \/ /\ ExplodeStep
             /\ \A c \in Cells :
                   grid'[c] # grid[c] => grid[c] = DESTRUCTIBLE /\ grid'[c] = EMPTY
    /\ \A a \in 0 .. 3 :
          (AgentStep(a) /\ C11_EdgePassed(agent_positions[agent_i], a)) =>
              /\ C6_Dest(agent_positions[agent_i], a) \in Cells
              /\ pc' # "raised"
    /\ ExplodeStep =>
          \A k \in 2 .. Len(affected') : affected'[k] \in Cells

C11_GridCells == []C11_Typed /\ [][C11_Step]_vars

\* The eighth agent, at column 22, has taken LEFT, UP or DOWN: the edge test
\* passed and the read of the target cell, which is no cell of the grid, failed.
C11_Witness ==
    /\ pc = "raised"
    /\ agent_positions[agent_i][2] >= COLS
    /\ \E a \in 0 .. 2 :
          /\ C11_EdgePassed(agent_positions[agent_i], a)
          /\ C6_Dest(agent_positions[agent_i], a) \notin Cells

(* ----------------------------------------------------------------------- *)
(* C12. Bellman update: update(s, a, r, s') leaves in Q[s, a] the value    *)
(* Q[s, a] + 0.1 * (r + 0.9 * max Q[s', .] - Q[s, a]), with Q[s, a] and    *)
(* the maximum those of the table before the call (also when s' = s);      *)
(* from Q[s, a] = 0, r = 5 and maximum 0 the new value is 0.5.             *)
(* ----------------------------------------------------------------------- *)
C12_Max(t, state) ==
    CHOOSE m \in { QGet(t, state, a) : a \in 0 .. 4 } :
        \A a \in 0 .. 4 : QGet(t, state, a) <= m

C12_Step ==
    UnitUpdate =>
        LET old == QGet(q_table[0], call.state, call.action)
            m   == C12_Max(q_table[0], call.next_state)
            new == QGet(q_table'[0], call.state, call.action)
        IN  /\ 100 * new = 90 * old + 10 * call.reward * QUnit + 9 * m
            /\ (old = 0 /\ call.reward = 5 /\ m = 0) => 2 * new = QUnit

C12_Bellman == [][C12_Step]_vars

\* An update with s' = s of the entry that held the maximum of its row, which
\* was not 0, has changed that entry.
C12_Witness ==
    /\ call.op = "update"
    /\ call.done
    /\ call.state = call.next_state
    /\ QGet(call.before, call.state, call.action) = C12_Max(call.before, call.state)
    /\ QGet(call.before, call.state, call.action) # 0
    /\ QGet(q_table[0], call.state, call.action) # QGet(call.before, call.state, call.action)

(* ----------------------------------------------------------------------- *)
(* C13. Greedy selection: when choose_action does not explore, the action  *)
(* it returns holds the maximum of Q[state, .] over the 5 actions and is   *)
(* the lowest index that does; the result is always in 0..4 and the table  *)
(* is not modified.                                                        *)
(* ----------------------------------------------------------------------- *)
C13_Step ==
    UnitChoose =>
        LET row(a) == QGet(q_table[0], call.state, a)
            res    == call'.result
        IN  /\ res \in 0 .. 4
            /\ q_table' = q_table
            /\ ~call.explore =>
                  /\ \A a \in 0 .. 4 : row(a) <= row(res)
                  /\ \A a \in 0 .. res - 1 : row(a) < row(res)

C13_Greedy == [][C13_Step]_vars

\* A greedy choice among tied maxima: the action returned is neither the first
\* nor the last index, and a higher index holds the same, maximal value.
C13_Witness ==
    /\ call.op = "choose"
    /\ call.done
    /\ ~call.explore
    /\ call.result \in 1 .. 3
    /\ \E a \in call.result + 1 .. 4 :
          QGet(q_table[0], call.state, a) = QGet(q_table[0], call.state, call.result)

(* ----------------------------------------------------------------------- *)
(* C14. Table loading never fails and never trusts a bad table: after      *)
(* load_q_table the agent's table has shape (ROWS*COLS) x 5; it is the     *)
(* stored table when a stored table of that shape exists and the fresh     *)
(* zero table when the stored table is missing, unreadable or of another   *)
(* shape; no such case raises an error to the caller.                      *)
(* ----------------------------------------------------------------------- *)
C14_GoodFile ==
    call.file.kind = "array" /\ call.file.table.shape = <<ROWS * COLS, 5>>

C14_Step ==
    UnitLoad =>
        /\ ~call'.raised
        /\ q_table'[0].shape = <<ROWS * COLS, 5>>
        /\ q_table'[0] = IF C14_GoodFile THEN call.file.table ELSE ZeroTable

C14_SafeLoad == [][C14_Step]_vars

\* A stored array of another shape has become the agent's table.
C14_Witness ==
    /\ call.op = "load" /\ call.done /\ ~call.raised
    /\ call.file.kind = "array"
    /\ q_table[0] = call.file.table
    /\ q_table[0].shape # <<ROWS * COLS, 5>>

(* ----------------------------------------------------------------------- *)
(* C15. Action on an eliminated agent: perform_action called for an agent  *)
(* whose game_over flag is set returns -100 for every action, raises no    *)
(* error, and leaves the agent's position, the grid, the bombs and all     *)
(* lives unchanged; PLACE_BOMB adds no bomb.                               *)
(* ----------------------------------------------------------------------- *)
C15_Step ==
    PerformCall =>
        /\ game_over[call'.agent_index]
        /\ call'.reward = -100
        /\ ~call'.raised
        /\ agent_positions' = agent_positions
        /\ grid' = grid
        /\ bombs' = bombs
        /\ lives' = lives
        /\ game_over' = game_over

C15_Eliminated == [][C15_Step]_vars

\* PLACE_BOMB was called for an eliminated agent while a bomb was ticking.
C15_Witness ==
    /\ call.op = "perform" /\ call.action = 4 /\ call.reward = -100
    /\ pc = "idle"
    /\ game_over[call.agent_index]
    /\ bombs # <<>>

(* ----------------------------------------------------------------------- *)
(* C16. Wall-clock gate in on_update: each call adds delta_time to the     *)
(* accumulator; below the update interval the call changes nothing but the *)
(* accumulator (no bomb, agent, grid, Q-table or episode change); at or    *)
(* above the interval the call runs exactly one tick, however large        *)
(* delta_time is, and leaves the accumulator at 0: no remainder is carried *)
(* into the next call.                                                     *)
(* ----------------------------------------------------------------------- *)
\* What the game consists of, apart from the accumulator.
C16_Game ==
    <<num_agents, grid, agent_positions, lives, game_over, bombs, current_episode,
      q_table, q_writes, q_file, max_episodes>>

\* The call with delta_time that starts in this step.
C16_Call(delta_time) ==
    IF time_accumulator + delta_time < update_interval
    THEN /\ time_accumulator' = time_accumulator + delta_time
         /\ pc' = "idle"
         /\ UNCHANGED <<C16_Game, bomb_ticks, updated, moved>>
    ELSE /\ time_accumulator' = 0
         /\ pc' \in {"bombs", "agents"}
         /\ bomb_ticks' = [k \in DOMAIN bomb_ticks |-> bomb_ticks[k] + 1]
         /\ UNCHANGED C16_Game

\* Within the tick the accumulator stays at 0 and no bomb is counted a second
\* time: the ticks of a bomb change only when a call begins.
C16_Within ==
    /\ time_accumulator = 0 /\ time_accumulator' = 0
    /\ \A k \in DOMAIN bomb_ticks' :
          bomb_ticks'[k] = 0 \/ \E j \in DOMAIN bomb_ticks : bomb_ticks[j] = bomb_ticks'[k]

C16_Step ==
    IF pc = "idle" THEN \E delta_time \in DeltaTimes : C16_Call(delta_time)
    ELSE C16_Within

C16_Gate == [][C16_Step]_vars

\* A tick is under way: the accumulator is 0 and the bomb has been counted
\* down by one interval, whatever delta_time the call came with.
C16_Witness ==
    /\ pc = "agents"
    /\ time_accumulator = 0
    /\ bomb_ticks = <<1>>
    /\ bombs # <<>> /\ bombs[1].timer = BOMB_TIMER - update_interval

(* ----------------------------------------------------------------------- *)
(* C17. Q-table frame: after construction and loading, only                *)
(* QLearningAgent.update changes a Q-table value, and one call changes at  *)
(* most the entry [state, action] of that one agent's table. In one tick   *)
(* each non-eliminated agent's table changes in at most one entry, (its    *)
(* encoded position before acting, its chosen action); perform_action,     *)
(* explode_bomb, setup and the other agents' updates leave it unchanged.   *)
(* ----------------------------------------------------------------------- *)
\* The entries in which the tables t and u differ.
C17_Changed(t, u) ==
    { e \in DOMAIN t.cells \cup DOMAIN u.cells : QGet(t, e[1], e[2]) # QGet(u, e[1], e[2]) }

C17_Step ==
    /\ \A i \in Agents(num_agents) : q_table'[i].shape = q_table[i].shape
    /\ q_table' # q_table =>
          /\ pc = "agents"
          /\ ~game_over[agent_i]
          /\ agent_i \notin updated /\ updated' = updated \cup {agent_i}
          /\ \A j \in Agents(num_agents) \ {agent_i} : q_table'[j] = q_table[j]
          /\ \E action \in ActionIds :
                /\ AgentStep(action)
                /\ C17_Changed(q_table[agent_i], q_table'[agent_i])
                     = { <<get_state(agent_positions[agent_i]), action>> }
    /\ (pc \in {"bombs", "check", "idle"}) => q_table' = q_table

C17_Frame == [][C17_Step]_vars

\* Agent 0 has moved and its table holds a value in the row of the cell it
\* left, while agent 1, updated in the same ticks, has another table.
C17_Witness ==
    /\ num_agents = 2
    /\ 0 \in moved
    /\ \E a \in 0 .. 3 : QGet(q_table[0], get_state(<<START_ROW, START_COL>>), a) > 0
    /\ q_table[1] # q_table[0]
    /\ current_episode = 0

(* ----------------------------------------------------------------------- *)
(* C18. Episodes are unbounded: max_episodes is never consulted, so no     *)
(* stop condition is enforced; after the episode counter reaches           *)
(* max_episodes the tick loop keeps running, agents keep acting, and the   *)
(* counter can go on to exceed max_episodes.                               *)
(* ----------------------------------------------------------------------- *)
\* Between two calls, with the counter at or past max_episodes, a call that
\* reaches the interval still starts a tick.
C18_StillTicks ==
    (pc = "idle" /\ current_episode >= max_episodes /\ current_episode < MaxEpisodes) =>
        \A delta_time \in DeltaTimes :
            time_accumulator + delta_time >= update_interval => ENABLED OnUpdateTick(delta_time)

\* With the counter at or past max_episodes the agent loop still acts for a
\* non-eliminated agent and the test of line 204 still counts episodes.
C18_StillActs ==
    /\ (pc = "agents" /\ agent_i < num_agents /\ ~game_over[agent_i]) =>
          \E action \in ActionIds : ENABLED AgentStep(action)
    /\ (pc = "check" /\ AllOver) => ENABLED EpisodeReset

\* No step assigns max_episodes, and the counter moves only by the reset.
C18_Step ==
    /\ max_episodes' = max_episodes
    /\ (current_episode' # current_episode) =>
          (LeavesCheck /\ AllOver /\ current_episode' = current_episode + 1)

C18_Unbounded == [][C18_StillTicks /\ C18_StillActs /\ C18_Step]_vars

\* The counter has passed max_episodes, with ticks in which an agent acted and
\* learnt while the counter was already at max_episodes.
C18_Witness ==
    /\ current_episode > max_episodes
    /\ \E i \in Agents(num_agents) : q_table[i] # ZeroTable /\ q_file[i].exists

(* ----------------------------------------------------------------------- *)
(* C19. Implicit bound on live bombs: at the end of every tick each agent  *)
(* owns at most 6 active bombs (fuse 3 / interval 0.5) and the active set  *)
(* holds at most 6 * num_agents bombs; every active bomb's timer is one of *)
(* 0.5, 1.0, ..., 3.0, its owner is a valid agent index and its position   *)
(* is inside the grid, and no two bombs of the same owner have the same    *)
(* timer.                                                                  *)
(* ----------------------------------------------------------------------- *)
C19_PerAgent == BOMB_TIMER \div update_interval

C19_Timers == { update_interval * j : j \in 1 .. C19_PerAgent }

C19_BombBound ==
    pc = "idle" =>
        /\ \A i \in Agents(num_agents) : Owned(bombs, i) <= 6
        /\ C19_PerAgent = 6
        /\ Len(bombs) <= 6 * num_agents
        /\ \A k \in 1 .. Len(bombs) :
              /\ bombs[k].timer \in C19_Timers
              /\ bombs[k].owner \in Agents(num_agents)
              /\ InBounds(bombs[k].row, bombs[k].col)
        /\ \A j, k \in 1 .. Len(bombs) :
              (j # k /\ bombs[j].owner = bombs[k].owner) => bombs[j].timer # bombs[k].timer

\* A tick has ended with a ticking bomb at a position outside the grid.
C19_Witness ==
    /\ pc = "idle"
    /\ \E k \in 1 .. Len(bombs) :
          /\ ~InBounds(bombs[k].row, bombs[k].col)
          /\ bombs[k].timer < BOMB_TIMER

(* ----------------------------------------------------------------------- *)
(* C20. Implicit occupancy guarantee: once a non-eliminated agent has made *)
(* one successful move in the current episode, the cell it occupies is     *)
(* EMPTY in every later state of that episode: moves only enter EMPTY      *)
(* cells and no cell becomes non-empty before the next reset.  Nothing     *)
(* guarantees this for the start cell (1, 1 + 3*i) chosen by setup.        *)
(* ----------------------------------------------------------------------- *)
\* moved holds the agents that have moved since the last setup(); an agent
\* eliminated after its move stays where it is, on an EMPTY cell.
C20_Occupancy ==
    \A i \in moved : InBounds(agent_positions[i][1], agent_positions[i][2])
                     /\ grid[agent_positions[i]] = EMPTY

\* Agent 0 has moved away from its start cell and a blast has happened, while
\* agent 1, which has not moved, stands on a start cell that is not EMPTY.
C20_Witness ==
    /\ num_agents = 2
    /\ 0 \in moved /\ agent_positions[0] # <<START_ROW, START_COL>>
    /\ ~game_over[0]
    /\ affected # <<>>
    /\ 1 \notin moved /\ grid[agent_positions[1]] # EMPTY

====
